---- MODULE Spec2Model ----
(***************************************************************************)
(* A model of the corvus helper library: the hash-stabilization polling    *)
(* loop (corvus/monitoring.py) run against the concurrent writer of its    *)
(* test, configuration-file discovery, the heartbeat ping and the git      *)
(* metadata helper (corvus/misc.py, corvus/cmd.py), and the emulated       *)
(* upsert (corvus/database.py).  The helpers are independent of each       *)
(* other, so each has its own specification over its own variables; the    *)
(* variables of the other helpers stay at their idle values.               *)
(***************************************************************************)
EXTENDS Integers, Sequences, FiniteSets, TLC

VARIABLES
    \* ---- monitoring.has_stabilized_hash and the writer thread of its test
    content,        \* the file's content: 0 is the empty file, k > 0 the k-th timestamp
    cycles,         \* keep_file_changing's `cycles` argument
    wcycle,         \* cycles the writer has completed
    wpc,            \* writer position: "open" | "write" | "done"
    N0,             \* the max_seconds argument of the call
    max_seconds,    \* the local max_seconds, decremented by the loop
    old,            \* the local `old`: NoDigest (None) or the previous digest
    rpc,            \* reader position: "loop" | "done"
    result,         \* "none" | "True" | "False"
    changed,        \* history: the content changed since the previous hash read
    log,            \* history: one record per hash read
    \* ---- misc.discover_config
    name,           \* the `name` argument, a string as a sequence of tokens
    use_prefix,     \* the `use_prefix` argument
    location,       \* the `location` argument (<<>> is the empty string)
    environ,        \* os.environ: variable name -> value, for the variables that are set
    fs,             \* directory d -> "nodir" | "nofile" | "invalid" | "valid": whether d
                    \* exists and what os.path.join(d, file_name) is
    cpc,            \* "call" | "done"
    prefix,         \* the local `prefix`
    coutcome,       \* "none" | "config" | "BadConfigurationFile" | "MissingConfigurationFile"
    cconfig,        \* the directory whose file was parsed and returned (<<>> if none)
    copened,        \* history: the directories in which open() was attempted, in order
    \* ---- database.upsert_orm
    table,          \* the SQL table: a set of rows [id, a, b], `id` the primary key
    upkey,          \* pkey.value of the last call (NoKey before any call)
    uattrs,         \* `attributes` of the last call: column -> value
    ubefore,        \* history: the table when the last call started
    uoutcome,       \* "none" | "returned" | "IntegrityError"
    ureturned,      \* the primary key the last call returned (NoKey if none)
    \* ---- misc.ping_healthchecks
    pcalls,         \* number of calls made
    puuid,          \* the `uuid` argument of the last call
    pstatus,        \* the `status` argument of the last call
    pnet,           \* what requests.get did in the last call: "response" | "RequestException"
    requests,       \* history: the URLs of all HTTP GETs issued, in order
    pbefore,        \* history: `requests` when the last call started
    plogged,        \* the log levels the last call emitted, in order
    praised,        \* the exception the last call raised to its caller ("none" if none)
    \* ---- misc.current_git_commit over cmd.get_cmd_output
    gdescribe,      \* what `git describe --always` does: [rc, stdout, stderr]
    grevparse,      \* what `git rev-parse --abbrev-ref HEAD` does: [rc, stdout, stderr]
    gpc,            \* "call" | "done"
    goutcome,       \* "none" | "returned" | the name of the exception raised
    gvalue,         \* the dictionary returned (<<>> if none)
    gran,           \* history: the git commands run, in order
    \* ---- misc.get_bin_version over cmd.get_cmd_output
    bexists,        \* os.path.exists(path)
    bversion,       \* what `<path> --version` does: [rc, stdout, stderr]
    bpc,            \* "call" | "done"
    boutcome,       \* "none" | "returned" | the name of the exception raised
    bvalue,         \* the version string returned ("" if none)
    bran,           \* history: the commands run, in order
    \* ---- cdocker.image_exists
    dimages,        \* the images the Docker daemon holds: a set of <<name, tag>>
    dname,          \* the `name` argument
    dtag,           \* the `tag` argument ("" is the empty tag)
    dlogger,        \* whether a logger was passed
    dapi,           \* how the daemon answers: "ok" | "APIError"
    dpc,            \* "call" | "done"
    doutcome,       \* "none" | "returned" | the name of the exception raised
    dvalue,         \* the boolean returned (FALSE if none)
    dlogged,        \* the log levels the call emitted, in order
    \* ---- cmd.make_path_comment
    mstat,          \* what os.stat(path) does: "ok" | "OSError"
    mopen,          \* what open(path, "rb") does: "ok" | "PermissionError"
    msize,          \* format_size(os.stat(path).st_size), a token
    mmessage,       \* the `message` argument, a token
    mwork_magic,    \* the `work_magic` argument
    mcaller,        \* the `caller_funcname` argument
    mpc,            \* "call" | "done"
    moutput,        \* the string returned, a sequence of tokens (<<>> is "")
    mlogged,        \* the errors the call logged: the names of the exceptions caught
    \* ---- database.upsert_orm, two concurrent callers
    ctable,         \* the SQL table the two callers share
    ccall,          \* caller -> [pkey, attrs]: the arguments of its upsert_orm call
    cstep,          \* caller -> "select" | "commit" | "done": the next step of its call
    cfound,         \* caller -> the rows its SELECT returned
    cresult,        \* caller -> "none" | "returned" | "IntegrityError"
    creturned,      \* caller -> the primary key its call returned (NoKey if none)
    cevents,        \* history: the steps taken, in order, as <<caller, step>>
    \* ---- logs.ColoredFormatter.format
    ffmt,           \* self._style._fmt, a string as a sequence of tokens
    fcalls,         \* number of format calls made
    flevel,         \* record.levelno of the last call, by name
    foutcome,       \* "none" | "returned" | the name of the exception raised
    fresult,        \* the string the last call returned (<<>> if none)
    \* ---- logs.get_colored_logger
    lhandlers,      \* logger.handlers of logging.getLogger(scriptname), in order
    llevel,         \* the logger's level ("NOTSET" before any call)
    ldir,           \* os.path.isdir(log_dir)
    lcalls,         \* number of get_colored_logger calls made
    lpersist,       \* the `persist` argument of the last call
    lbefore,        \* history: logger.handlers when the last call started
    loutcome,       \* "none" | "returned" | the name of the exception raised
    \* ---- misc.qtask_id2ascii, misc.ascii2qtask_id
    qs,             \* the qtask id: a string as the sequence of its code points
    qascii,         \* qtask_id2ascii(qs): a string as a sequence of characters
    qback,          \* ascii2qtask_id(qascii): [raised, value]
    qpc             \* "encode" | "decode" | "done"

monVars == <<content, cycles, wcycle, wpc, N0, max_seconds, old, rpc, result, changed, log>>

cfgVars == <<name, use_prefix, location, environ, fs, cpc, prefix, coutcome, cconfig, copened>>

dbVars == <<table, upkey, uattrs, ubefore, uoutcome, ureturned>>

pingVars == <<pcalls, puuid, pstatus, pnet, requests, pbefore, plogged, praised>>

gitVars == <<gdescribe, grevparse, gpc, goutcome, gvalue, gran>>

binVars == <<bexists, bversion, bpc, boutcome, bvalue, bran>>

dockerVars == <<dimages, dname, dtag, dlogger, dapi, dpc, doutcome, dvalue, dlogged>>

pathVars == <<mstat, mopen, msize, mmessage, mwork_magic, mcaller, mpc, moutput, mlogged>>

concVars == <<ctable, ccall, cstep, cfound, cresult, creturned, cevents>>

fmtVars == <<ffmt, fcalls, flevel, foutcome, fresult>>

logVars == <<lhandlers, llevel, ldir, lcalls, lpersist, lbefore, loutcome>>

qtaskVars == <<qs, qascii, qback, qpc>>

vars == <<monVars, cfgVars, dbVars, pingVars, gitVars, binVars, dockerVars, pathVars, concVars, fmtVars, logVars, qtaskVars>>

\* what a step of one helper leaves alone: the variables of the others
notMonVars == <<cfgVars, dbVars, pingVars, gitVars, binVars, dockerVars, pathVars, concVars, fmtVars, logVars, qtaskVars>>

notCfgVars == <<monVars, dbVars, pingVars, gitVars, binVars, dockerVars, pathVars, concVars, fmtVars, logVars, qtaskVars>>

notDbVars == <<monVars, cfgVars, pingVars, gitVars, binVars, dockerVars, pathVars, concVars, fmtVars, logVars, qtaskVars>>

notPingVars == <<monVars, cfgVars, dbVars, gitVars, binVars, dockerVars, pathVars, concVars, fmtVars, logVars, qtaskVars>>

notGitVars == <<monVars, cfgVars, dbVars, pingVars, binVars, dockerVars, pathVars, concVars, fmtVars, logVars, qtaskVars>>

notBinVars == <<monVars, cfgVars, dbVars, pingVars, gitVars, dockerVars, pathVars, concVars, fmtVars, logVars, qtaskVars>>

notDockerVars == <<monVars, cfgVars, dbVars, pingVars, gitVars, binVars, pathVars, concVars, fmtVars, logVars, qtaskVars>>

notPathCommentVars == <<monVars, cfgVars, dbVars, pingVars, gitVars, binVars, dockerVars, concVars, fmtVars, logVars, qtaskVars>>

notConcurrentVars == <<monVars, cfgVars, dbVars, pingVars, gitVars, binVars, dockerVars, pathVars, fmtVars, logVars, qtaskVars>>

notFormatterVars == <<monVars, cfgVars, dbVars, pingVars, gitVars, binVars, dockerVars, pathVars, concVars, logVars, qtaskVars>>

notLoggerVars == <<monVars, cfgVars, dbVars, pingVars, gitVars, binVars, dockerVars, pathVars, concVars, fmtVars, qtaskVars>>

notQtaskVars == <<monVars, cfgVars, dbVars, pingVars, gitVars, binVars, dockerVars, pathVars, concVars, fmtVars, logVars>>

(***************************************************************************)
(* Bounds of the model.                                                    *)
(***************************************************************************)
MaxCycles == 3      \* the writer writes at most this many timestamps
MaxSeconds == 3     \* max_seconds ranges over -1 .. MaxSeconds
DigestSpace == 3    \* number of distinct digests (stands for the 2^32 of xxh32)
MaxKey == 2         \* primary keys range over 1 .. MaxKey
MaxPings == 2       \* ping_healthchecks is called at most this many times
MaxFormats == 3     \* ColoredFormatter.format is called at most this many times
MaxLoggers == 3     \* get_colored_logger is called at most this many times
MaxLen == 3         \* a qtask id has at most this many characters

(***************************************************************************)
(* Distinguished values.                                                   *)
(***************************************************************************)
\* `old = None`: no digest read yet
NoDigest == -1

\* the content of the empty file
EmptyContent == 0

\* SQL NULL in a data column
Null == "NULL"

\* no primary key: None
NoKey == 0

(***************************************************************************)
(* The idle values of each helper's variables: the helper is not running.  *)
(***************************************************************************)
IdleMonitor ==
    /\ content = EmptyContent /\ cycles = 0 /\ wcycle = 0 /\ wpc = "done"
    /\ N0 = 0 /\ max_seconds = 0 /\ old = NoDigest /\ rpc = "done"
    /\ result = "none" /\ changed = FALSE /\ log = <<>>

IdleConfig ==
    /\ name = <<>> /\ use_prefix = FALSE /\ location = <<>>
    /\ environ = <<>> /\ fs = <<>>
    /\ cpc = "done" /\ prefix = <<>>
    /\ coutcome = "none" /\ cconfig = <<>> /\ copened = <<>>

IdleUpsert ==
    /\ table = {} /\ upkey = NoKey /\ uattrs = <<>> /\ ubefore = {}
    /\ uoutcome = "none" /\ ureturned = NoKey

IdlePing ==
    /\ pcalls = 0 /\ puuid = "" /\ pstatus = "" /\ pnet = "response"
    /\ requests = <<>> /\ pbefore = <<>> /\ plogged = <<>> /\ praised = "none"

IdleGit ==
    /\ gdescribe = <<>> /\ grevparse = <<>> /\ gpc = "done"
    /\ goutcome = "none" /\ gvalue = <<>> /\ gran = <<>>

IdleBin ==
    /\ bexists = FALSE /\ bversion = <<>> /\ bpc = "done"
    /\ boutcome = "none" /\ bvalue = "" /\ bran = <<>>

IdleDocker ==
    /\ dimages = {} /\ dname = "" /\ dtag = "" /\ dlogger = FALSE /\ dapi = "ok"
    /\ dpc = "done" /\ doutcome = "none" /\ dvalue = FALSE /\ dlogged = <<>>

IdlePathComment ==
    /\ mstat = "ok" /\ mopen = "ok" /\ msize = "" /\ mmessage = ""
    /\ mwork_magic = FALSE /\ mcaller = FALSE
    /\ mpc = "done" /\ moutput = <<>> /\ mlogged = <<>>

IdleConcurrent ==
    /\ ctable = {} /\ ccall = <<>> /\ cstep = <<>> /\ cfound = <<>>
    /\ cresult = <<>> /\ creturned = <<>> /\ cevents = <<>>

IdleFormatter ==
    /\ ffmt = <<>> /\ fcalls = 0 /\ flevel = "" /\ foutcome = "none" /\ fresult = <<>>

IdleLogger ==
    /\ lhandlers = <<>> /\ llevel = "NOTSET" /\ ldir = FALSE /\ lcalls = 0
    /\ lpersist = FALSE /\ lbefore = <<>> /\ loutcome = "none"

IdleQtask ==
    /\ qs = <<>> /\ qascii = <<>> /\ qback = <<>> /\ qpc = "done"

(***************************************************************************)
(* corvus/misc.py get_xxhash32, corvus/monitoring.py has_stabilized_hash   *)
(* and the writer thread of tests/test_monitoring.py                       *)
(***************************************************************************)
\* The digest of a content.  xxh32 maps unboundedly many contents to 32 bits,
\* so it is not injective; the model keeps that by hashing into a digest
\* space smaller than the set of contents.
get_xxhash32(c) == c % DigestSpace

LoopContinuesPositive(s) == s > 0

\* `while max_seconds != 0`
LoopContinues(s) == s # 0

NextOldKeepFirst(o, new) == IF o = NoDigest THEN new ELSE o

\* `old = new`
NextOld(o, new) == new

NextSecondsStuck(s) == s

\* `max_seconds -= 1`
NextSeconds(s) == s - 1

InitMonitor ==
    /\ IdleConfig /\ IdleUpsert /\ IdlePing /\ IdleGit /\ IdleBin /\ IdleDocker /\ IdlePathComment /\ IdleConcurrent /\ IdleFormatter /\ IdleLogger /\ IdleQtask
    /\ content = EmptyContent
    /\ cycles \in 0..MaxCycles
    /\ wcycle = 0
    /\ wpc = IF cycles = 0 THEN "done" ELSE "open"
    /\ N0 \in -1..MaxSeconds
    /\ max_seconds = N0
    /\ old = NoDigest
    /\ rpc = "loop"
    /\ result = "none"
    /\ changed = FALSE
    /\ log = <<>>

\* keep_file_changing: open(filename, "w") truncates the file
WriterOpen ==
    /\ wpc = "open"
    /\ content' = EmptyContent
    /\ changed' = (changed \/ content # EmptyContent)
    /\ wpc' = "write"
    /\ UNCHANGED <<cycles, wcycle, N0, max_seconds, old, rpc, result, log>>
    /\ UNCHANGED notMonVars

\* keep_file_changing: file.write(<timestamp>) and close, then sleep(period);
\* successive timestamps differ, the k-th one is content k
WriterWrite ==
    /\ wpc = "write"
    /\ content' = wcycle + 1
    /\ changed' = TRUE
    /\ wcycle' = wcycle + 1
    /\ wpc' = IF wcycle + 1 = cycles THEN "done" ELSE "open"
    /\ UNCHANGED <<cycles, N0, max_seconds, old, rpc, result, log>>
    /\ UNCHANGED notMonVars

\* one iteration of the loop of has_stabilized_hash
ReadIter ==
    /\ rpc = "loop"
    /\ LoopContinues(max_seconds)
    /\ LET new == get_xxhash32(content) IN
        /\ log' = Append(log, [d |-> new, chg |-> changed, wdone |-> (wpc = "done")])
        /\ changed' = FALSE
        /\ IF new = old
           THEN /\ result' = "True"
                /\ rpc' = "done"
                /\ UNCHANGED <<old, max_seconds>>
           ELSE /\ old' = NextOld(old, new)
                /\ max_seconds' = NextSeconds(max_seconds)
                /\ UNCHANGED <<result, rpc>>
    /\ UNCHANGED <<content, cycles, wcycle, wpc, N0>>
    /\ UNCHANGED notMonVars

\* the loop condition fails: `return False`
ReturnFalse ==
    /\ rpc = "loop"
    /\ ~LoopContinues(max_seconds)
    /\ result' = "False"
    /\ rpc' = "done"
    /\ UNCHANGED <<content, cycles, wcycle, wpc, N0, max_seconds, old, changed, log>>
    /\ UNCHANGED notMonVars

NextMonitor == WriterOpen \/ WriterWrite \/ ReadIter \/ ReturnFalse

SpecMonitor == InitMonitor /\ [][NextMonitor]_vars

\* The reader's loop keeps running (it only sleeps between iterations).
FairMonitor == SpecMonitor /\ WF_vars(ReadIter) /\ WF_vars(ReturnFalse)

(***************************************************************************)
(* corvus/misc.py discover_config.  Strings are sequences of tokens, so    *)
(* that f-strings and os.path.join are concatenations.                     *)
(***************************************************************************)
Names == {<<"test">>, <<"conf/", "app", ".json">>}

Cwd == <<"/cwd">>

Home == <<"/home/u">>

EnvDir == <<"/env">>

LocDir == <<"/loc">>

\* str.upper, token by token
Upper(s) ==
    [i \in DOMAIN s |->
        CASE s[i] = "test" -> "TEST"
          [] s[i] = "app" -> "APP"
          [] OTHER -> s[i]]

\* os.path.basename: drop the directory part
Basename(n) == IF n # <<>> /\ Head(n) = "conf/" THEN Tail(n) ELSE n

\* os.path.splitext(...)[0]: drop a trailing extension
SplitextRoot(n) ==
    IF n # <<>> /\ n[Len(n)] = ".json" THEN SubSeq(n, 1, Len(n) - 1) ELSE n

\* the `prefix` chosen by the `if use_prefix` branch
PrefixOf(n, up) == IF up THEN SplitextRoot(Basename(n)) ELSE <<>>

\* os.environ.get(var) or ""
EnvGetOrEmpty(var) == IF var \in DOMAIN environ THEN environ[var] ELSE <<>>

\* os.path.isdir
IsDir(d) == d \in DOMAIN fs /\ fs[d] # "nodir"

ShareDir(pre) == <<"/home/u/.local/share/">> \o pre

EtcDir(pre) == <<"/etc/">> \o pre

CandidateTupleEnvFirst(loc, pre) ==
    << EnvGetOrEmpty(Upper(pre) \o <<"_CONFIG">>), loc, Cwd, Home, ShareDir(pre), EtcDir(pre) >>

\* the tuple of directories handed to filter()
CandidateTuple(loc, pre) ==
    << loc, EnvGetOrEmpty(Upper(pre) \o <<"_CONFIG">>), Cwd, Home, ShareDir(pre), EtcDir(pre) >>

LocationsWithoutEtc(loc, pre) ==
    SelectSeq(SubSeq(CandidateTuple(loc, pre), 1, 5), IsDir)

\* filter(lambda d: d is not None and os.path.isdir(d), ...)
Locations(loc, pre) == SelectSeq(CandidateTuple(loc, pre), IsDir)

OpenAndLoadSkipInvalid(d) ==
    CASE fs[d] = "valid" -> "config"
      [] OTHER -> "next"

\* one iteration's open() and json.load(): IOError -> next location,
\* a parse error -> BadConfigurationFile, else the parsed config
OpenAndLoad(d) ==
    CASE fs[d] = "valid" -> "config"
      [] fs[d] = "invalid" -> "bad"
      [] OTHER -> "next"

RECURSIVE Probe(_, _)
\* the `for location in locations` loop and the raise after it
Probe(locs, opened) ==
    IF locs = <<>>
    THEN [outcome |-> "MissingConfigurationFile", config |-> <<>>, opened |-> opened]
    ELSE LET d == Head(locs)
             r == OpenAndLoad(d)
         IN  CASE r = "config" ->
                    [outcome |-> "config", config |-> d, opened |-> Append(opened, d)]
               [] r = "bad" ->
                    [outcome |-> "BadConfigurationFile", config |-> <<>>,
                     opened |-> Append(opened, d)]
               [] OTHER -> Probe(Tail(locs), Append(opened, d))

\* the environment variables and directories a call can look at
EnvVarsOf(n) == {<<"_CONFIG">>, Upper(SplitextRoot(Basename(n))) \o <<"_CONFIG">>}

OptionalDirsOf(n, up) == {LocDir, EnvDir, ShareDir(PrefixOf(n, up)), EtcDir(PrefixOf(n, up))}

InitConfig ==
    /\ IdleMonitor /\ IdleUpsert /\ IdlePing /\ IdleGit /\ IdleBin /\ IdleDocker /\ IdlePathComment /\ IdleConcurrent /\ IdleFormatter /\ IdleLogger /\ IdleQtask
    /\ name \in Names
    /\ use_prefix \in BOOLEAN
    /\ location \in {<<>>, LocDir}
    /\ \E set \in SUBSET EnvVarsOf(name) : environ = [v \in set |-> EnvDir]
    /\ \E opt \in [OptionalDirsOf(name, use_prefix) -> {"nodir", "nofile", "invalid", "valid"}] :
       \E std \in [{Cwd, Home} -> {"nofile", "invalid", "valid"}] :
          fs = [d \in DOMAIN opt \cup DOMAIN std |->
                    IF d \in DOMAIN opt THEN opt[d] ELSE std[d]]
    /\ cpc = "call"
    /\ prefix = <<>>
    /\ coutcome = "none" /\ cconfig = <<>> /\ copened = <<>>

\* discover_config(name, logger, use_prefix, location)
DiscoverConfig ==
    /\ cpc = "call"
    /\ LET pre == PrefixOf(name, use_prefix)
           r == Probe(Locations(location, pre), <<>>)
       IN  /\ prefix' = pre
           /\ coutcome' = r.outcome
           /\ cconfig' = r.config
           /\ copened' = r.opened
    /\ cpc' = "done"
    /\ UNCHANGED <<name, use_prefix, location, environ, fs>>
    /\ UNCHANGED notCfgVars

NextConfig == DiscoverConfig

SpecConfig == InitConfig /\ [][NextConfig]_vars

(***************************************************************************)
(* corvus/database.py upsert_orm, on a table with the primary key `id` and *)
(* the columns `a` and `b`.                                                *)
(***************************************************************************)
Keys == 1..MaxKey

\* the non-NULL values of a data column
Vals == {"x"}

DataColumns == {"a", "b"}

Columns == {"id"} \cup DataColumns

\* the `attributes` a caller can pass: any columns, the primary key included
AttributeMaps ==
    UNION {{[c \in dom |-> IF c = "id" THEN k ELSE v[c]] :
                k \in Keys, v \in [DataColumns -> Vals \cup {Null}]} :
           dom \in SUBSET Columns}

\* session.query(orm_cls).filter(<pkey.attribute> == pkey.value): the rows found
RowsFor(tbl, k) == {r \in tbl : r.id = k}

\* orm_cls(**{pkey.attribute: pkey.value})
NewInstance(k) == [id |-> k, a |-> Null, b |-> Null]

SetAttrsDropped(inst, attrs) == inst

SetAttrsResetOthers(inst, attrs) ==
    [c \in Columns |-> IF c \in DOMAIN attrs THEN attrs[c]
                       ELSE IF c = "id" THEN inst[c] ELSE Null]

\* for key in attributes: setattr(instance, key, attributes[key])
SetAttrs(inst, attrs) ==
    [c \in Columns |-> IF c \in DOMAIN attrs THEN attrs[c] ELSE inst[c]]

\* the primary-key constraint the database checks at commit
PrimaryKeyFree(tbl, k) == RowsFor(tbl, k) = {}

CommitInsertUnchecked(tbl, row) == [ok |-> TRUE, table |-> tbl \cup {row}]

\* session.add(instance); session.commit() for a new instance: INSERT
CommitInsert(tbl, row) ==
    IF PrimaryKeyFree(tbl, row.id)
    THEN [ok |-> TRUE, table |-> tbl \cup {row}]
    ELSE [ok |-> FALSE, table |-> tbl]

\* session.commit() for a loaded instance: UPDATE ... WHERE id = <loaded id>
CommitUpdate(tbl, loaded, row) ==
    IF row.id = loaded.id \/ PrimaryKeyFree(tbl, row.id)
    THEN [ok |-> TRUE, table |-> (tbl \ {loaded}) \cup {row}]
    ELSE [ok |-> FALSE, table |-> tbl]

InitUpsert ==
    /\ IdleMonitor /\ IdleConfig /\ IdlePing /\ IdleGit /\ IdleBin /\ IdleDocker /\ IdlePathComment /\ IdleConcurrent /\ IdleFormatter /\ IdleLogger /\ IdleQtask
    /\ table = {} /\ upkey = NoKey /\ uattrs = <<>> /\ ubefore = {}
    /\ uoutcome = "none" /\ ureturned = NoKey

\* upsert_orm(orm_cls, attributes, engine, pkey, logger), run to completion
UpsertOrm ==
    \E k \in Keys, attrs \in AttributeMaps :
        LET found == RowsFor(table, k)
            instance == IF found = {} THEN NewInstance(k) ELSE CHOOSE r \in found : TRUE
            row == SetAttrs(instance, attrs)
            done == IF found = {} THEN CommitInsert(table, row)
                    ELSE CommitUpdate(table, instance, row)
        IN  /\ table' = done.table
            /\ upkey' = k
            /\ uattrs' = attrs
            /\ ubefore' = table
            /\ uoutcome' = IF done.ok THEN "returned" ELSE "IntegrityError"
            /\ ureturned' = IF done.ok THEN row.id ELSE NoKey
            /\ UNCHANGED notDbVars

NextUpsert == UpsertOrm

SpecUpsert == InitUpsert /\ [][NextUpsert]_vars

(***************************************************************************)
(* corvus/misc.py ping_healthchecks                                        *)
(***************************************************************************)
Statuses == {"", "start", "fail", "success", "START"}

Uuids == {"uuid-1", "uuid-2"}

SkipsStatusEmptyToo(st) == st \notin {"start", "fail"}

\* `if status and status not in ("start", "fail")`
SkipsStatus(st) == st # "" /\ st \notin {"start", "fail"}

\* f"https://hc-ping.com/{uuid}{'/' + status if status else ''}"
HcUrl(uuid, st) ==
    <<"https://hc-ping.com/", uuid>> \o (IF st # "" THEN <<"/", st>> ELSE <<>>)

InitPing ==
    /\ IdleMonitor /\ IdleConfig /\ IdleUpsert /\ IdleGit /\ IdleBin /\ IdleDocker /\ IdlePathComment /\ IdleConcurrent /\ IdleFormatter /\ IdleLogger /\ IdleQtask
    /\ pcalls = 0 /\ puuid = "" /\ pstatus = "" /\ pnet = "response"
    /\ requests = <<>> /\ pbefore = <<>> /\ plogged = <<>> /\ praised = "none"

\* ping_healthchecks(uuid, logger, status, quiet); requests.get either
\* returns a response or raises a requests.RequestException
PingHealthchecks ==
    /\ pcalls < MaxPings
    /\ \E uuid \in Uuids, st \in Statuses, quiet \in BOOLEAN,
          net \in {"response", "RequestException"} :
        /\ pcalls' = pcalls + 1
        /\ puuid' = uuid
        /\ pstatus' = st
        /\ pnet' = net
        /\ pbefore' = requests
        /\ praised' = "none"
        /\ IF SkipsStatus(st)
           THEN /\ plogged' = <<"error">>
                /\ UNCHANGED requests
           ELSE /\ requests' = Append(requests, HcUrl(uuid, st))
                /\ plogged' = (IF quiet THEN <<>> ELSE <<"info">>)
                              \o (IF net = "RequestException" THEN <<"error">> ELSE <<>>)
    /\ UNCHANGED notPingVars

NextPing == PingHealthchecks

SpecPing == InitPing /\ [][NextPing]_vars

(***************************************************************************)
(* corvus/cmd.py get_cmd_output                                            *)
(***************************************************************************)
\* A command's standard output is the sequence of its lines, "" being a line
\* of whitespace only.  str.strip() drops the blank lines at both ends.
RECURSIVE LStrip(_)
LStrip(lines) ==
    IF lines # <<>> /\ Head(lines) = "" THEN LStrip(Tail(lines)) ELSE lines

RECURSIVE RStrip(_)
RStrip(lines) ==
    IF lines # <<>> /\ lines[Len(lines)] = ""
    THEN RStrip(SubSeq(lines, 1, Len(lines) - 1))
    ELSE lines

Strip(lines) == RStrip(LStrip(lines))

\* get_cmd_output: subprocess.run(..., check=True) raises CalledProcessError
\* on a non-zero exit code, otherwise the dictionary is returned
get_cmd_output(run) ==
    IF run.rc # 0
    THEN [raised |-> "CalledProcessError", rc |-> run.rc, stdout |-> <<>>, stderr |-> ""]
    ELSE [raised |-> "none", rc |-> run.rc, stdout |-> Strip(run.stdout), stderr |-> run.stderr]

(***************************************************************************)
(* corvus/misc.py current_git_commit over corvus/cmd.py get_cmd_output     *)
(***************************************************************************)
NotARepoMessage == "fatal: not a git repository (or any of the parent directories): .git"

GitStderrs == {"", NotARepoMessage, "fatal: bad revision 'HEAD'"}

GitRuns ==
    [rc : {0, 1, 128}, stdout : {<<>>, <<"1a2b3c4">>, <<"main">>}, stderr : GitStderrs]

\* "fatal: not a git repository" in stderr
SaysNotARepo(stderr) == stderr = NotARepoMessage


\* the checks current_git_commit makes on one command's output
GitCheck(out) ==
    CASE out.raised # "none" -> out.raised
      [] out.rc # 0 /\ SaysNotARepo(out.stderr) -> "NotAGitRepository"
      [] out.rc # 0 -> "GitUnexpectedError"
      [] OTHER -> "ok"

InitGit ==
    /\ IdleMonitor /\ IdleConfig /\ IdleUpsert /\ IdlePing /\ IdleBin /\ IdleDocker /\ IdlePathComment /\ IdleConcurrent /\ IdleFormatter /\ IdleLogger /\ IdleQtask
    /\ gdescribe \in GitRuns
    /\ grevparse \in GitRuns
    /\ gpc = "call"
    /\ goutcome = "none" /\ gvalue = <<>> /\ gran = <<>>

\* current_git_commit(dir_target)
CurrentGitCommit ==
    /\ gpc = "call"
    /\ LET describe == get_cmd_output(gdescribe)
           rev_parse == get_cmd_output(grevparse)
       IN  IF GitCheck(describe) # "ok"
           THEN /\ goutcome' = GitCheck(describe)
                /\ gvalue' = <<>>
                /\ gran' = <<"describe">>
           ELSE IF GitCheck(rev_parse) # "ok"
           THEN /\ goutcome' = GitCheck(rev_parse)
                /\ gvalue' = <<>>
                /\ gran' = <<"describe", "rev-parse">>
           ELSE /\ goutcome' = "returned"
                /\ gvalue' = [commit |-> describe.stdout, branch |-> rev_parse.stdout]
                /\ gran' = <<"describe", "rev-parse">>
    /\ gpc' = "done"
    /\ UNCHANGED <<gdescribe, grevparse>>
    /\ UNCHANGED notGitVars

NextGit == CurrentGitCommit

SpecGit == InitGit /\ [][NextGit]_vars

(***************************************************************************)
(* Properties of has_stabilized_hash                                       *)
(***************************************************************************)
\* some hash read returned the digest of the read immediately before it
HasMatch == \E i \in 2..Len(log) : log[i].d = log[i - 1].d

\* the hash reads taken after the writer's last write
ReadsAfterStop == Cardinality({i \in 1..Len(log) : log[i].wdone})

\* C1: with max_seconds = N > 0 the call performs at most N hash reads and
\* returns True exactly when some read returns the digest of the read before
\* it (it returns at that read), False when no two consecutive reads among
\* the N match; with N = 0 it returns False without reading the file.
C1_StabilizedContract ==
    /\ (N0 > 0) => Len(log) <= N0
    /\ (N0 > 0 /\ rpc = "done") =>
          /\ (result = "True") <=> HasMatch
          /\ (result = "False") <=> (~HasMatch /\ Len(log) = N0)
    /\ (N0 > 0 /\ rpc # "done") => ~HasMatch
    /\ (N0 = 0) => (Len(log) = 0 /\ (rpc = "done" => result = "False"))

\* the test's case (keep_seconds, max_seconds) = (2, 3): True at the third read
C1_Witness ==
    /\ rpc = "done" /\ result = "True"
    /\ cycles = 2 /\ N0 = 3 /\ Len(log) = 3

\* the writer changed the content between every two consecutive reads of
\* which the first was taken before the writer's last write
ContentChangesBetweenReads ==
    \A i \in 2..Len(log) : ~log[i - 1].wdone => log[i].chg

\* every read whose predecessor was taken before the writer's last write
\* returned a digest different from that predecessor's
DigestChangesBetweenReads ==
    \A i \in 2..Len(log) : ~log[i - 1].wdone => log[i].d # log[i - 1].d

\* what C2 says of the call's result: True only, and as soon as, two reads
\* were taken after the last write; False only when max_seconds is positive
\* and used up before that
StabilizesAtSecondReadAfterStop ==
    /\ result = "True" => (ReadsAfterStop = 2 /\ log[Len(log)].wdone)
    /\ result = "False" => (N0 >= 0 /\ Len(log) = N0 /\ ReadsAfterStop < 2)
    /\ rpc # "done" => ReadsAfterStop < 2

\* C2 as stated: with a writer that changes the file's content between every
\* two consecutive reads until it stops, the call never returns True before
\* the last write, returns True at the second read after it when max_seconds
\* allows, and False when max_seconds is positive and smaller.
C2_Original == ContentChangesBetweenReads => StabilizesAtSecondReadAfterStop

\* C2 amended: the same with a writer that makes every such read return a
\* digest different from the read before it.
C2_DigestChanging == DigestChangesBetweenReads => StabilizesAtSecondReadAfterStop

\* the writer was still writing at the first two reads, every digest differed
\* until it stopped, and the call returned True
C2_Witness ==
    /\ rpc = "done" /\ result = "True"
    /\ DigestChangesBetweenReads
    /\ Len(log) >= 4 /\ ~log[2].wdone /\ cycles >= 2

\* C3: with a negative max_seconds the call never returns False, and it
\* eventually returns True provided the writer eventually stops writing.
C3_NegativeNeverFalse ==
    (N0 < 0) => /\ [](result # "False")
                /\ (<>[](wpc = "done")) => <>(result = "True")

\* no limit, three writes seen while polling, then True
C3_Witness ==
    /\ N0 < 0 /\ result = "True"
    /\ cycles = 3 /\ Len(log) >= 4 /\ ~log[2].wdone

(***************************************************************************)
(* Properties of discover_config                                           *)
(***************************************************************************)
\* <PREFIX>_CONFIG as documented: <PREFIX> is the upper-cased extensionless name
DocumentedEnvVar == Upper(SplitextRoot(Basename(name))) \o <<"_CONFIG">>

\* C4: called with its default arguments, discover_config looks in the
\* directory named by <PREFIX>_CONFIG and returns the parsed content of the
\* configuration file found there.
C4_DefaultEnvLookup ==
    ( /\ cpc = "done" /\ ~use_prefix /\ location = <<>>
      /\ DocumentedEnvVar \in DOMAIN environ
      /\ IsDir(environ[DocumentedEnvVar])
      /\ fs[environ[DocumentedEnvVar]] = "valid" )
    => (coutcome = "config" /\ cconfig = environ[DocumentedEnvVar])

\* the candidate directories in the order C5 gives, for the call's prefix
ClaimedOrder ==
    << location, EnvGetOrEmpty(Upper(prefix) \o <<"_CONFIG">>), Cwd, Home,
       <<"/home/u/.local/share/">> \o prefix, <<"/etc/">> \o prefix >>

\* the directory exists and the file in it can be opened
Opens(d) == IsDir(d) /\ fs[d] \in {"valid", "invalid"}

\* the first candidate of the claimed order in which the file opens
FirstOpening ==
    {i \in 1..Len(ClaimedOrder) :
        Opens(ClaimedOrder[i]) /\ \A j \in 1..(i - 1) : ~Opens(ClaimedOrder[j])}

C6_MissingExactly ==
    cpc = "done" =>
        /\ (coutcome = "MissingConfigurationFile") <=>
              (\A i \in 1..Len(ClaimedOrder) : ~Opens(ClaimedOrder[i]))
        /\ coutcome = "MissingConfigurationFile" => cconfig = <<>>

\* every existing candidate was tried and none holds the file
C6_Witness ==
    /\ cpc = "done" /\ coutcome = "MissingConfigurationFile"
    /\ Len(copened) = 6

\* C7: when the first candidate in which the file opens holds invalid JSON,
\* BadConfigurationFile is raised and no later candidate is tried, even one
\* holding a valid file.
C7_BadStops ==
    cpc = "done" =>
        \A i \in FirstOpening :
            fs[ClaimedOrder[i]] = "invalid" =>
                /\ coutcome = "BadConfigurationFile"
                /\ cconfig = <<>>
                /\ copened # <<>> /\ copened[Len(copened)] = ClaimedOrder[i]
                /\ \A j \in (i + 1)..Len(ClaimedOrder) :
                      \A k \in 1..Len(copened) : copened[k] # ClaimedOrder[j]

\* an invalid file in the environment's directory hides a valid one in the
\* current directory
C7_Witness ==
    /\ cpc = "done" /\ coutcome = "BadConfigurationFile"
    /\ copened # <<>> /\ copened[Len(copened)] = EnvDir
    /\ fs[Cwd] = "valid"

(***************************************************************************)
(* Properties of upsert_orm                                                *)
(***************************************************************************)
\* after a call that returned: one row for the returned key, carrying every
\* value given in attributes
OneRowCarryingAttributes ==
    /\ Cardinality(RowsFor(table, ureturned)) = 1
    /\ \A r \in RowsFor(table, ureturned) :
          \A c \in DOMAIN uattrs : r[c] = uattrs[c]

\* a row is inserted exactly when no row with pkey.value existed before;
\* otherwise the existing row is updated in place
InsertOnlyWhenAbsent ==
    IF RowsFor(ubefore, upkey) = {}
    THEN Cardinality(table) = Cardinality(ubefore) + 1 /\ ubefore \subseteq table
    ELSE /\ Cardinality(table) = Cardinality(ubefore)
         /\ \E r \in RowsFor(ubefore, upkey) :
               table \ RowsFor(table, ureturned) = ubefore \ {r}

\* the call's attributes assign the primary-key attribute a value other than pkey.value
OverridesKey == "id" \in DOMAIN uattrs /\ uattrs["id"] # upkey

\* C8 as stated: after upsert_orm returns, the table holds exactly one row
\* for the returned primary key, carrying every value of attributes; a row is
\* inserted only when none with pkey.value existed, otherwise the existing
\* one is updated; so sequential upserts on one key leave exactly one row
\* for that key.
C8_Original ==
    uoutcome = "returned" =>
        /\ OneRowCarryingAttributes
        /\ InsertOnlyWhenAbsent
        /\ Cardinality(RowsFor(table, upkey)) = 1

\* C8 amended: the last part holds of upserts whose attributes do not assign
\* the primary-key attribute another value.
C8_OneRowPerKey ==
    uoutcome = "returned" =>
        /\ OneRowCarryingAttributes
        /\ InsertOnlyWhenAbsent
        /\ ~OverridesKey => Cardinality(RowsFor(table, upkey)) = 1

\* an update of an existing row beside another row, changing a column
C8_Witness ==
    /\ uoutcome = "returned" /\ ~OverridesKey
    /\ RowsFor(ubefore, upkey) # {} /\ Cardinality(ubefore) = 2
    /\ table # ubefore

(***************************************************************************)
(* Properties of ping_healthchecks                                         *)
(***************************************************************************)
\* C9: a call issues exactly one HTTP GET, to https://hc-ping.com/<uuid> for
\* an empty status and to https://hc-ping.com/<uuid>/<status> for 'start' or
\* 'fail', and no request for any other status; a failed request is logged
\* and never raised to the caller.
C9_OnePing ==
    pcalls > 0 =>
        /\ pstatus = "" => requests = Append(pbefore, <<"https://hc-ping.com/", puuid>>)
        /\ pstatus \in {"start", "fail"} =>
              requests = Append(pbefore, <<"https://hc-ping.com/", puuid, "/", pstatus>>)
        /\ pstatus \notin {"", "start", "fail"} => requests = pbefore
        /\ praised = "none"
        /\ (pnet = "RequestException" /\ requests # pbefore) =>
              (plogged # <<>> /\ plogged[Len(plogged)] = "error")

\* a second ping, with status 'fail', whose request failed
C9_Witness ==
    /\ pcalls = 2 /\ pstatus = "fail" /\ pnet = "RequestException"
    /\ Len(requests) = 2 /\ Len(pbefore) = 1

(***************************************************************************)
(* Properties of current_git_commit                                        *)
(***************************************************************************)
\* the output of the first git command that exited non-zero, if any
FailedGitRun ==
    IF gdescribe.rc # 0 THEN {gdescribe}
    ELSE IF grevparse.rc # 0 THEN {grevparse} ELSE {}

\* C10: NotAGitRepository is raised when a git command exits non-zero with
\* 'fatal: not a git repository' in its stderr, GitUnexpectedError for any
\* other non-zero exit, and the {commit, branch} dictionary is returned only
\* when both commands exit with code 0.
C10_GitErrors ==
    gpc = "done" =>
        /\ \A run \in FailedGitRun :
              goutcome = IF SaysNotARepo(run.stderr)
                         THEN "NotAGitRepository" ELSE "GitUnexpectedError"
        /\ goutcome = "returned" =>
              /\ gdescribe.rc = 0 /\ grevparse.rc = 0
              /\ gvalue = [commit |-> gdescribe.stdout, branch |-> grevparse.stdout]

(***************************************************************************)
(* corvus/misc.py get_bin_version over corvus/cmd.py get_cmd_output        *)
(***************************************************************************)
BinStdouts ==
    {<<>>, <<"tool 1.0">>, <<"tool 1.0", "Copyright">>, <<"", "tool 1.0", "">>}

BinRuns ==
    [rc : {0, 1, 2}, stdout : BinStdouts, stderr : {"", "usage: tool", "unknown option"}]

\* str.split("\n"): the lines of a string, the empty string having one empty line
SplitLines(lines) == IF lines = <<>> THEN <<"">> ELSE lines

\* output['stdout'].strip().split("\n")[0]
VersionString(stdout) == Head(SplitLines(Strip(stdout)))

InitBin ==
    /\ IdleMonitor /\ IdleConfig /\ IdleUpsert /\ IdlePing /\ IdleGit /\ IdleDocker /\ IdlePathComment /\ IdleConcurrent /\ IdleFormatter /\ IdleLogger /\ IdleQtask
    /\ bexists \in BOOLEAN
    /\ bversion \in BinRuns
    /\ bpc = "call"
    /\ boutcome = "none" /\ bvalue = "" /\ bran = <<>>

\* get_bin_version(path, logger)
GetBinVersion ==
    /\ bpc = "call"
    /\ IF ~bexists
       THEN /\ boutcome' = "FileNotFoundError"
            /\ bvalue' = ""
            /\ bran' = <<>>
       ELSE LET output == get_cmd_output(bversion)
            IN  /\ bran' = <<"--version">>
                /\ IF output.raised # "none"
                   THEN boutcome' = output.raised /\ bvalue' = ""
                   ELSE IF output.rc # 0
                   THEN boutcome' = "VersionFlagNotImplemented" /\ bvalue' = ""
                   ELSE boutcome' = "returned" /\ bvalue' = VersionString(output.stdout)
    /\ bpc' = "done"
    /\ UNCHANGED <<bexists, bversion>>
    /\ UNCHANGED notBinVars

NextBin == GetBinVersion

SpecBin == InitBin /\ [][NextBin]_vars

(***************************************************************************)
(* Properties of get_bin_version                                           *)
(***************************************************************************)
\* the first line of the command's standard output, surrounding blank lines
\* not counted
FirstOutputLine(stdout) ==
    IF \A i \in 1..Len(stdout) : stdout[i] = ""
    THEN ""
    ELSE stdout[CHOOSE i \in 1..Len(stdout) :
                    stdout[i] # "" /\ \A j \in 1..(i - 1) : stdout[j] = ""]

\* C11: get_bin_version raises FileNotFoundError without running anything
\* when the path does not exist, raises VersionFlagNotImplemented when
\* `<path> --version` exits with a non-zero code, and otherwise returns the
\* first line of the command's standard output.
C11_BinVersion ==
    bpc = "done" =>
        /\ ~bexists => boutcome = "FileNotFoundError" /\ bran = <<>>
        /\ bexists /\ bversion.rc # 0 => boutcome = "VersionFlagNotImplemented"
        /\ bexists /\ bversion.rc = 0 =>
              boutcome = "returned" /\ bvalue = FirstOutputLine(bversion.stdout)

(***************************************************************************)
(* corvus/cdocker.py image_exists                                          *)
(***************************************************************************)
ImageNames == {"hello-world", "busybox", "non-existent-image"}

ImageTags == {"latest", "stable-glibc"}

\* the images a daemon can hold
DaemonImages == {"hello-world", "busybox"} \X ImageTags

TagAsGiven(tag) == tag

\* tag or 'latest'
TagOrLatest(tag) == IF tag = "" THEN "latest" ELSE tag

\* f"{name}:{tag or 'latest'}", a reference as the pair of its two parts
ImageReference(nm, tag) == <<nm, TagOrLatest(tag)>>

\* dclient.images.get(reference): the image, ImageNotFound, or the daemon's error
ImagesGet(api, images, ref) ==
    CASE api # "ok" -> api
      [] ref \in images -> "image"
      [] OTHER -> "ImageNotFound"

InitDocker ==
    /\ IdleMonitor /\ IdleConfig /\ IdleUpsert /\ IdlePing /\ IdleGit /\ IdleBin /\ IdlePathComment /\ IdleConcurrent /\ IdleFormatter /\ IdleLogger /\ IdleQtask
    /\ dimages \in SUBSET DaemonImages
    /\ dname \in ImageNames
    /\ dtag \in ImageTags \cup {""}
    /\ dlogger \in BOOLEAN
    /\ dapi \in {"ok", "APIError"}
    /\ dpc = "call"
    /\ doutcome = "none" /\ dvalue = FALSE /\ dlogged = <<>>

\* image_exists(name, tag, logger)
ImageExists ==
    /\ dpc = "call"
    /\ LET got == ImagesGet(dapi, dimages, ImageReference(dname, dtag))
       IN  CASE got = "image" ->
                   doutcome' = "returned" /\ dvalue' = TRUE /\ dlogged' = <<>>
             [] got = "ImageNotFound" ->
                   /\ doutcome' = "returned" /\ dvalue' = FALSE
                   /\ dlogged' = IF dlogger THEN <<"error">> ELSE <<>>
             [] OTHER ->
                   doutcome' = got /\ dvalue' = FALSE /\ dlogged' = <<>>
    /\ dpc' = "done"
    /\ UNCHANGED <<dimages, dname, dtag, dlogger, dapi>>
    /\ UNCHANGED notDockerVars

NextDocker == ImageExists

SpecDocker == InitDocker /\ [][NextDocker]_vars

(***************************************************************************)
(* Properties of image_exists                                              *)
(***************************************************************************)
\* the daemon holds the image 'name:tag', an empty tag standing for 'latest'
DaemonHolds == <<dname, IF dtag = "" THEN "latest" ELSE dtag>> \in dimages

\* C12: image_exists(name, tag) returns True if and only if the daemon
\* holds an image 'name:tag', an empty tag standing for 'latest'; when the
\* image is not found the call returns False, it never raises ImageNotFound.
C12_ImageExists ==
    dpc = "done" =>
        /\ doutcome # "ImageNotFound"
        /\ dapi = "ok" => doutcome = "returned" /\ (dvalue <=> DaemonHolds)
        /\ doutcome = "returned" => (dvalue <=> DaemonHolds)

\* an image asked for with the empty tag and held as 'latest' was found
C12_Witness ==
    dpc = "done" /\ dtag = "" /\ doutcome = "returned" /\ dvalue /\ DaemonHolds

(***************************************************************************)
(* corvus/cmd.py make_path_comment                                         *)
(***************************************************************************)
Messages == {"saved", "done"}

Sizes == {"0 bytes", "2 KB"}

\* the local `description` at the f-string: assigned only `if work_magic`
Description(work_magic, opened) ==
    CASE ~work_magic -> "UnboundLocalError"
      [] opened # "ok" -> opened
      [] OTHER -> "ASCII text"

\* the body of the try block: the comment, or the exception raised in it
TryComment(stat, opened, size, message, work_magic, caller) ==
    LET description == Description(work_magic, opened)
        output == <<message, " (", size, ", ", description, "): '", "path", "'">>
    IN  CASE stat # "ok" -> [raised |-> stat, output |-> <<>>]
          [] description \in {"UnboundLocalError", "PermissionError"} ->
                [raised |-> description, output |-> <<>>]
          [] caller -> [raised |-> "none", output |-> <<"(", "caller", ") ">> \o output]
          [] OTHER -> [raised |-> "none", output |-> output]

InitPathComment ==
    /\ IdleMonitor /\ IdleConfig /\ IdleUpsert /\ IdlePing /\ IdleGit /\ IdleBin /\ IdleDocker /\ IdleConcurrent /\ IdleFormatter /\ IdleLogger /\ IdleQtask
    /\ mstat \in {"ok", "OSError"}
    /\ mopen \in {"ok", "PermissionError"}
    /\ msize \in Sizes
    /\ mmessage \in Messages
    /\ mwork_magic \in BOOLEAN
    /\ mcaller \in BOOLEAN
    /\ mpc = "call"
    /\ moutput = <<>> /\ mlogged = <<>>

\* make_path_comment(path, message, logger, work_magic, caller_funcname)
MakePathComment ==
    /\ mpc = "call"
    /\ LET try == TryComment(mstat, mopen, msize, mmessage, mwork_magic, mcaller)
       IN  IF try.raised # "none"
           THEN moutput' = <<>> /\ mlogged' = <<try.raised>>
           ELSE moutput' = try.output /\ mlogged' = <<>>
    /\ mpc' = "done"
    /\ UNCHANGED <<mstat, mopen, msize, mmessage, mwork_magic, mcaller>>
    /\ UNCHANGED notPathCommentVars

NextPathComment == MakePathComment

SpecPathComment == InitPathComment /\ [][NextPathComment]_vars

(***************************************************************************)
(* Properties of make_path_comment                                         *)
(***************************************************************************)
Contains(str, token) == \E i \in 1..Len(str) : str[i] = token

\* C13: for an existing, readable path make_path_comment returns a non-empty
\* comment that contains the user message and the file size, whether
\* work_magic is False or True; it returns the empty string only when
\* inspecting the path (os.stat, or open when work_magic is set) raised.
C13_PathComment ==
    mpc = "done" =>
        /\ mstat = "ok" /\ mopen = "ok" =>
              /\ moutput # <<>>
              /\ Contains(moutput, mmessage)
              /\ Contains(moutput, msize)
        /\ moutput = <<>> =>
              mstat # "ok" \/ (mwork_magic /\ mopen # "ok")

(***************************************************************************)
(* Properties of has_stabilized_hash under a concurrent writer             *)
(***************************************************************************)
\* C14 as stated: a True result implies that no write changed the file
\* between the final two hash reads, under every interleaving of the
\* writer's steps with the reader's reads.
C14_Original ==
    result = "True" => Len(log) >= 2 /\ ~log[Len(log)].chg

\* C14 amended: a True result implies that the final two hash reads returned
\* the same digest; writes may have occurred between them.
C14_LastDigestsEqual ==
    result = "True" =>
        /\ Len(log) >= 2
        /\ log[Len(log)].d = log[Len(log) - 1].d
        /\ \A i \in 2..(Len(log) - 1) : log[i].d # log[i - 1].d

\* True although the writer wrote between the final two reads and had not
\* finished at the last one
C14_Witness ==
    /\ result = "True" /\ Len(log) >= 2
    /\ log[Len(log)].chg /\ ~log[Len(log)].wdone

(***************************************************************************)
(* corvus/database.py upsert_orm called by two concurrent callers, each    *)
(* with a session of its own: the SELECT and the COMMIT of a call are      *)
(* separate steps, and steps of the two calls interleave.                  *)
(***************************************************************************)
Callers == {"A", "B"}

InitConcurrent ==
    /\ IdleMonitor /\ IdleConfig /\ IdleUpsert /\ IdlePing /\ IdleGit /\ IdleBin /\ IdleDocker /\ IdlePathComment /\ IdleFormatter /\ IdleLogger /\ IdleQtask
    /\ ctable = {}
    /\ ccall \in [Callers -> [pkey : Keys, attrs : AttributeMaps]]
    /\ cstep = [s \in Callers |-> "select"]
    /\ cfound = [s \in Callers |-> {}]
    /\ cresult = [s \in Callers |-> "none"]
    /\ creturned = [s \in Callers |-> NoKey]
    /\ cevents = <<>>

\* session.query(orm_cls).filter(...).first() of one caller
UpsertSelect ==
    \E s \in Callers :
        /\ cstep[s] = "select"
        /\ cfound' = [cfound EXCEPT ![s] = RowsFor(ctable, ccall[s].pkey)]
        /\ cstep' = [cstep EXCEPT ![s] = "commit"]
        /\ cevents' = Append(cevents, <<s, "select">>)
        /\ UNCHANGED <<ctable, ccall, cresult, creturned>>
        /\ UNCHANGED notConcurrentVars

\* the branch, the setattr loop, session.add and session.commit of one
\* caller, then the refresh and the return
UpsertCommit ==
    \E s \in Callers :
        /\ cstep[s] = "commit"
        /\ LET found == cfound[s]
               instance == IF found = {} THEN NewInstance(ccall[s].pkey)
                           ELSE CHOOSE r \in found : TRUE
               row == SetAttrs(instance, ccall[s].attrs)
               done == IF found = {} THEN CommitInsert(ctable, row)
                       ELSE CommitUpdate(ctable, instance, row)
           IN  /\ ctable' = done.table
               /\ cresult' = [cresult EXCEPT
                                ![s] = IF done.ok THEN "returned" ELSE "IntegrityError"]
               /\ creturned' = [creturned EXCEPT
                                  ![s] = IF done.ok THEN row.id ELSE NoKey]
        /\ cstep' = [cstep EXCEPT ![s] = "done"]
        /\ cevents' = Append(cevents, <<s, "commit">>)
        /\ UNCHANGED <<ccall, cfound>>
        /\ UNCHANGED notConcurrentVars

NextConcurrent == UpsertSelect \/ UpsertCommit

SpecConcurrent == InitConcurrent /\ [][NextConcurrent]_vars

(***************************************************************************)
(* Properties of concurrent upsert_orm calls                               *)
(***************************************************************************)
BothDone == \A s \in Callers : cstep[s] = "done"

\* both calls name the same primary key (the table starts without a row for it)
SameKey == \A s, t \in Callers : ccall[s].pkey = ccall[t].pkey

\* neither call's attributes assign the primary-key attribute another value
NoKeyOverride ==
    \A s \in Callers :
        "id" \in DOMAIN ccall[s].attrs => ccall[s].attrs["id"] = ccall[s].pkey

\* the table holds exactly one row for the key of caller s, and that row
\* carries every value of the attributes of one of the calls
OneRowOfOneCall(s) ==
    /\ Cardinality(RowsFor(ctable, ccall[s].pkey)) = 1
    /\ \A r \in RowsFor(ctable, ccall[s].pkey) :
          \E t \in Callers :
              \A c \in DOMAIN ccall[t].attrs : r[c] = ccall[t].attrs[c]

\* the position of a step in the history
StepAt(s, step) == CHOOSE i \in 1..Len(cevents) : cevents[i] = <<s, step>>

\* both SELECTs ran before either COMMIT
Raced ==
    \A s, t \in Callers : StepAt(s, "select") < StepAt(t, "commit")

\* C15 as stated: two concurrent upsert_orm calls with the same primary key,
\* on a table without a row for it, end under every interleaving with both
\* calls returning and exactly one row for the key, holding the attributes
\* of one of the calls.
C15_Original ==
    (BothDone /\ SameKey) =>
        /\ \A s \in Callers : cresult[s] = "returned"
        /\ \A s \in Callers : OneRowOfOneCall(s)

\* C15 amended: with attributes that do not reassign the key, every
\* interleaving ends with exactly one row for the key, holding the attributes
\* of one of the calls; both calls return only when the second SELECT ran
\* after the first COMMIT, and when both SELECTs ran first the call that
\* commits second raises IntegrityError and the row is the first call's.
C15_OneRowOneWinner ==
    (BothDone /\ SameKey /\ NoKeyOverride) =>
        /\ \A s \in Callers : OneRowOfOneCall(s)
        /\ ~Raced => \A s \in Callers : cresult[s] = "returned"
        /\ Raced =>
              \E s, t \in Callers :
                  /\ StepAt(s, "commit") < StepAt(t, "commit")
                  /\ cresult[s] = "returned" /\ cresult[t] = "IntegrityError"
                  /\ ctable = {SetAttrs(NewInstance(ccall[s].pkey), ccall[s].attrs)}

\* both calls selected before either committed, and the second commit failed
C15_Witness ==
    /\ BothDone /\ SameKey /\ NoKeyOverride /\ Raced
    /\ \E s \in Callers : cresult[s] = "IntegrityError"
    /\ \E s, t \in Callers : ccall[s].attrs # ccall[t].attrs

(***************************************************************************)
(* Frame of upsert_orm                                                     *)
(***************************************************************************)
\* the rows, after the call, that stand where `before` stood before it
Successors(before) == table \ (ubefore \ {before})

\* C16: upsert_orm changes no row other than the one identified by
\* pkey.value, and when it updates an existing row every column not named in
\* attributes keeps its previous value.
C16_Frame ==
    uoutcome # "none" =>
        /\ \A r \in ubefore : r.id # upkey => r \in table
        /\ Cardinality(table \ ubefore) <= 1
        /\ \A before \in RowsFor(ubefore, upkey) :
              /\ Cardinality(Successors(before)) = 1
              /\ \A after \in Successors(before) :
                    \A c \in Columns \ DOMAIN uattrs : after[c] = before[c]

\* an update, beside another row, that names one column of a row whose other
\* column held a value
C16_Witness ==
    /\ uoutcome = "returned"
    /\ DOMAIN uattrs = {"a"}
    /\ \E before \in RowsFor(ubefore, upkey) : before.b # Null /\ before \notin table
    /\ \E r \in ubefore : r.id # upkey

(***************************************************************************)
(* logs.py ColoredFormatter                                                *)
(***************************************************************************)
ANSI_YELLOW == "ESC[33m"

ANSI_RED == "ESC[31m"

ANSI_RESET == "ESC[0m"

Levels == {"DEBUG", "INFO", "WARNING", "ERROR", "CRITICAL"}

\* the format string given to the constructor
ConfiguredFormat == <<"%(levelname)s", " ", "%(message)s">>

\* what logging.Formatter.format does with the record: it returns the
\* formatted string, or raises (record.getMessage() on arguments that do not
\* fit the message, the style on a field the record lacks)
BaseFormats == {"ok", "TypeError", "ValueError"}

\* the format string `format` installs for a record of the given level
LevelFormat(level, format_orig) ==
    CASE level = "WARNING" -> <<ANSI_YELLOW>> \o format_orig \o <<ANSI_RESET>>
      [] level \in {"ERROR", "CRITICAL"} -> <<ANSI_RED>> \o format_orig \o <<ANSI_RESET>>
      [] OTHER -> format_orig

\* logging.Formatter.format: the stored format with its fields filled in
FormatterFormat(fmt, level) ==
    [i \in 1..Len(fmt) |->
        CASE fmt[i] = "%(levelname)s" -> level
          [] fmt[i] = "%(message)s" -> "message"
          [] OTHER -> fmt[i]]

\* ColoredFormatter(fmt)
InitFormatter ==
    /\ IdleMonitor /\ IdleConfig /\ IdleUpsert /\ IdlePing /\ IdleGit /\ IdleBin /\ IdleDocker /\ IdlePathComment /\ IdleConcurrent /\ IdleLogger /\ IdleQtask
    /\ ffmt = ConfiguredFormat
    /\ fcalls = 0 /\ flevel = "" /\ foutcome = "none" /\ fresult = <<>>

\* ColoredFormatter.format(record)
Format ==
    \E level \in Levels, base \in BaseFormats :
        /\ fcalls < MaxFormats
        /\ LET format_orig == ffmt
               installed == LevelFormat(level, format_orig)
           IN  IF base = "ok"
               THEN /\ fresult' = FormatterFormat(installed, level)
                    /\ ffmt' = format_orig
                    /\ foutcome' = "returned"
               ELSE /\ fresult' = <<>>
                    /\ ffmt' = installed
                    /\ foutcome' = base
        /\ flevel' = level
        /\ fcalls' = fcalls + 1
        /\ UNCHANGED notFormatterVars

NextFormatter == Format

SpecFormatter == InitFormatter /\ [][NextFormatter]_vars

(***************************************************************************)
(* Properties of ColoredFormatter.format                                   *)
(***************************************************************************)
\* C17: after every call to ColoredFormatter.format, for records of any
\* level and after any sequence of calls, the stored format string is again
\* the one configured at construction, so that a record is formatted with
\* the colour of its own level only.
C17_FormatRestored ==
    /\ ffmt = ConfiguredFormat
    /\ foutcome = "returned" =>
          fresult = FormatterFormat(LevelFormat(flevel, ConfiguredFormat), flevel)

(***************************************************************************)
(* logs.py get_colored_logger, called repeatedly for one scriptname        *)
(***************************************************************************)
\* the format string of a call: with or without the PID field
LoggerFmt(pid) == IF pid THEN "fmt with PID" ELSE "fmt"

KeepHandlers(handlers) == handlers

\* logger.handlers = []
ResetHandlers(handlers) == <<>>

\* logging.FileHandler(log_path) with logging.Formatter(fmt), made by call n
FileHandler(n, pid) ==
    [kind |-> "file", call |-> n, stream |-> "log_path",
     formatter |-> "Formatter", fmt |-> LoggerFmt(pid)]

\* logging.StreamHandler with ColoredFormatter(fmt), made by call n
StreamHandler(n, to_stdout, pid) ==
    [kind |-> "stream", call |-> n,
     stream |-> IF to_stdout THEN "sys.stdout" ELSE "sys.stderr",
     formatter |-> "ColoredFormatter", fmt |-> LoggerFmt(pid)]

InitLogger ==
    /\ IdleMonitor /\ IdleConfig /\ IdleUpsert /\ IdlePing /\ IdleGit /\ IdleBin /\ IdleDocker /\ IdlePathComment /\ IdleConcurrent /\ IdleFormatter /\ IdleQtask
    /\ lhandlers = <<>> /\ llevel = "NOTSET"
    /\ ldir \in BOOLEAN
    /\ lcalls = 0 /\ lpersist = FALSE /\ lbefore = <<>> /\ loutcome = "none"

\* get_colored_logger(scriptname, log_dir, level, to_stdout, persist, pid);
\* os.mkdir and the open() of logging.FileHandler either succeed or raise
GetColoredLogger ==
    \E level \in {"DEBUG", "INFO"}, to_stdout \in BOOLEAN, persist \in BOOLEAN,
       pid \in BOOLEAN, mkdir \in {"ok", "OSError"}, opened \in {"ok", "OSError"} :
        /\ lcalls < MaxLoggers
        /\ lcalls' = lcalls + 1
        /\ lpersist' = persist
        /\ lbefore' = lhandlers
        /\ IF ~ldir /\ mkdir # "ok"
           THEN /\ loutcome' = mkdir
                /\ UNCHANGED <<lhandlers, llevel, ldir>>
           ELSE /\ ldir' = TRUE
                /\ llevel' = level
                /\ LET n == lcalls + 1
                       reset == ResetHandlers(lhandlers)
                   IN  IF persist /\ opened # "ok"
                       THEN /\ loutcome' = opened
                            /\ lhandlers' = reset
                       ELSE /\ loutcome' = "returned"
                            /\ lhandlers' =
                                  (IF persist THEN Append(reset, FileHandler(n, pid))
                                   ELSE reset)
                                  \o <<StreamHandler(n, to_stdout, pid)>>
        /\ UNCHANGED notLoggerVars

NextLogger == GetColoredLogger

SpecLogger == InitLogger /\ [][NextLogger]_vars

(***************************************************************************)
(* Properties of get_colored_logger                                        *)
(***************************************************************************)
HandlersOfKind(kind) == {i \in 1..Len(lhandlers) : lhandlers[i].kind = kind}

\* C18: after any sequence of get_colored_logger calls for one scriptname,
\* the logger carries exactly the handlers of the latest call that returned:
\* one stream handler, plus one file handler if and only if that call had
\* persist=True; handlers of different calls are never on the logger together.
C18_LatestHandlers ==
    /\ loutcome = "returned" =>
          /\ \A i \in 1..Len(lhandlers) : lhandlers[i].call = lcalls
          /\ Cardinality(HandlersOfKind("stream")) = 1
          /\ Cardinality(HandlersOfKind("file")) = (IF lpersist THEN 1 ELSE 0)
          /\ Len(lhandlers) = (IF lpersist THEN 1 ELSE 0) + 1
    /\ \A i, j \in 1..Len(lhandlers) : lhandlers[i].call = lhandlers[j].call

\* a call without persist after a call that had left a file and a stream handler
C18_Witness ==
    /\ loutcome = "returned" /\ ~lpersist
    /\ \E i \in 1..Len(lbefore) : lbefore[i].kind = "file"
    /\ Len(lhandlers) = 1

(***************************************************************************)
(* corvus/misc.py qtask_id2ascii and ascii2qtask_id                        *)
(***************************************************************************)
\* the code points a qtask id is made of here: NUL, BEL, '-', '0', 'A', 'x'
CodePoints == {0, 7, 45, 48, 65, 120}

DigitChars == <<"0", "1", "2", "3", "4", "5", "6", "7", "8", "9">>

Delim == "-"

StrLastDigit(n) == <<DigitChars[(n % 10) + 1]>>

\* str(n) for n >= 0: the decimal digits of n
RECURSIVE Str(_)
Str(n) ==
    IF n < 10 THEN <<DigitChars[n + 1]>>
    ELSE Str(n \div 10) \o <<DigitChars[(n % 10) + 1]>>

\* delim.join(parts)
RECURSIVE Join(_, _)
Join(delim, parts) ==
    IF parts = <<>> THEN <<>>
    ELSE IF Len(parts) = 1 THEN Head(parts)
    ELSE Head(parts) \o <<delim>> \o Join(delim, Tail(parts))

\* str.split(delim): the pieces between the delimiters, [''] for ''
RECURSIVE Split(_, _)
Split(str, delim) ==
    IF \A i \in 1..Len(str) : str[i] # delim
    THEN <<str>>
    ELSE LET k == CHOOSE i \in 1..Len(str) :
                      str[i] = delim /\ \A j \in 1..(i - 1) : str[j] # delim
         IN  <<SubSeq(str, 1, k - 1)>> \o Split(SubSeq(str, k + 1, Len(str)), delim)

\* whether int(piece) returns: a non-empty run of decimal digits
IsInt(piece) ==
    /\ piece # <<>>
    /\ \A i \in 1..Len(piece) : \E d \in 1..Len(DigitChars) : DigitChars[d] = piece[i]

\* int(piece) for a run of decimal digits
RECURSIVE Int_(_)
Int_(piece) ==
    LET last == (CHOOSE d \in 1..Len(DigitChars) : DigitChars[d] = piece[Len(piece)]) - 1
    IN  IF Len(piece) = 1 THEN last
        ELSE Int_(SubSeq(piece, 1, Len(piece) - 1)) * 10 + last

\* qtask_id2ascii(qtask_id, delim="-")
qtask_id2ascii(qtask_id) ==
    Join(Delim, [i \in 1..Len(qtask_id) |-> Str(qtask_id[i])])

\* ascii2qtask_id(ascii)
ascii2qtask_id(ascii) ==
    LET pieces == Split(ascii, Delim)
    IN  IF \E i \in 1..Len(pieces) : ~IsInt(pieces[i])
        THEN [raised |-> "ValueError", value |-> <<>>]
        ELSE [raised |-> "none", value |-> [i \in 1..Len(pieces) |-> Int_(pieces[i])]]

RECURSIVE StringsUpTo(_)
StringsUpTo(n) ==
    IF n = 0 THEN {<<>>}
    ELSE LET shorter == StringsUpTo(n - 1)
         IN  shorter \cup {Append(s, c) : s \in shorter, c \in CodePoints}

InitQtask ==
    /\ IdleMonitor /\ IdleConfig /\ IdleUpsert /\ IdlePing /\ IdleGit /\ IdleBin /\ IdleDocker /\ IdlePathComment /\ IdleConcurrent /\ IdleFormatter /\ IdleLogger
    /\ qs \in StringsUpTo(MaxLen)
    /\ qascii = <<>> /\ qback = <<>> /\ qpc = "encode"

\* a = qtask_id2ascii(s)
Encode ==
    /\ qpc = "encode"
    /\ qascii' = qtask_id2ascii(qs)
    /\ qpc' = "decode"
    /\ UNCHANGED <<qs, qback>>
    /\ UNCHANGED notQtaskVars

\* ascii2qtask_id(a)
Decode ==
    /\ qpc = "decode"
    /\ qback' = ascii2qtask_id(qascii)
    /\ qpc' = "done"
    /\ UNCHANGED <<qs, qascii>>
    /\ UNCHANGED notQtaskVars

NextQtask == Encode \/ Decode

SpecQtask == InitQtask /\ [][NextQtask]_vars

(***************************************************************************)
(* Properties of qtask_id2ascii and ascii2qtask_id                         *)
(***************************************************************************)
\* C19 as stated: ascii2qtask_id(qtask_id2ascii(s)) = s for every string s,
\* the empty string included.
C19_Original ==
    qpc = "done" => qback.raised = "none" /\ qback.value = qs

\* C19 amended: the round trip returns s for every non-empty string s; for
\* the empty string qtask_id2ascii returns '' and ascii2qtask_id('') raises
\* ValueError.
C19_RoundTripNonEmpty ==
    qpc = "done" =>
        IF qs = <<>>
        THEN qascii = <<>> /\ qback.raised = "ValueError"
        ELSE qback.raised = "none" /\ qback.value = qs

\* a round trip of several characters, one of them with a code of several digits
C19_Witness ==
    /\ qpc = "done" /\ Len(qs) > 1
    /\ \E i \in 1..Len(qs) : Len(Str(qs[i])) > 1
    /\ \E i \in 1..Len(qascii) : qascii[i] = Delim
    /\ qback.raised = "none" /\ qback.value = qs

====
